---------------------------- MODULE Spec2Model ----------------------------
(***************************************************************************)
(* A model of src/app.py, the Streamlit "AI Study Assistant".              *)
(*                                                                         *)
(* Python strings are TLA+ strings (sequences of characters): Len, SubSeq  *)
(* and \o are len(), slicing and +.  An Optional[T] is a sequence of       *)
(* length at most one: None is << >> and a value v is << v >>.             *)
(*                                                                         *)
(* One run of the script (a Streamlit rerun) is one action: it constructs  *)
(* AIStudyAssistant, renders the three tabs with at most one button        *)
(* pressed, and redraws the stored responses.  What a run does to the rest *)
(* of the world is threaded through a record w:                            *)
(*   ss          st.session_state (key -> list of (question, hint))        *)
(*   temp_image  the contents of the file "temp_image.png"                 *)
(*   out         the warnings, errors and response cards the click drew    *)
(*   previous    what display_previous_responses drew, per modality        *)
(*   calls       the chat-completion requests sent                         *)
(*   extractions how many times OCR / PDF extraction was invoked           *)
(*   text, hint  the handler's local variables of those names              *)
(***************************************************************************)
EXTENDS Integers, Sequences, FiniteSets, TLC

VARIABLES session_state, temp_image, click, out, previous, calls,
          extractions, text, hint, prompt, sess

uiVars == <<session_state, click, out, previous, calls, extractions, text, hint>>
vars == <<session_state, temp_image, click, out, previous, calls,
          extractions, text, hint, prompt, sess>>

(***************************************************************************)
(* Bounds and program constants.                                           *)
(***************************************************************************)
\* The most (question, hint) pairs one session stores before the model stops clicking.
MaxResponses == 2

\* len(question) < 500 ... question[:500]
PreviewLen == 500

(***************************************************************************)
(* Python values.                                                          *)
(***************************************************************************)
None == << >>

Some(v) == << v >>

\* bool(x) of an Optional[str]: None and "" are falsy.
Truthy(v) == v # None /\ v[1] # ""

\* A string of n characters.
RECURSIVE Long(_)
Long(n) == IF n = 0 THEN ""
           ELSE IF n % 2 = 0 THEN LET h == Long(n \div 2) IN h \o h
           ELSE "a" \o Long(n - 1)

\* sep.join(parts)
RECURSIVE Join(_, _)
Join(sep, parts) == IF Len(parts) = 0 THEN ""
                    ELSE IF Len(parts) = 1 THEN parts[1]
                    ELSE parts[1] \o sep \o Join(sep, Tail(parts))

\* reversed(s)
Reversed(s) == [i \in 1..Len(s) |-> s[Len(s) - i + 1]]

(***************************************************************************)
(* The inputs the model draws from.                                        *)
(***************************************************************************)
Keys == {"text_responses", "image_responses", "pdf_responses"}

\* st.sidebar.radio options.
Topics == {"General", "Coding", "Math", "Science"}

\* Values get_ai_response can be handed directly, the radio's and others.
TopicInputs == Topics \cup {"coding", "History", ""}

\* What the user can have typed into the text area.
Texts == {"", "   ", "How do I solve 2x + 3 = 7?",
          "Give me the EXACT Answer to 2+2", Long(PreviewLen)}

\* Contents of an image file: whether it decodes, and what OCR recognises in it.
Image(id, decodable, fragments) ==
    [id |-> id, decodable |-> decodable, fragments |-> fragments]

AbsentFile == Image("<absent>", FALSE, << >>)

EmptyFile == Image("<empty>", FALSE, << >>)

Images == {Image("corrupt.png", FALSE, << >>),
           Image("blank.png", TRUE, << >>),
           Image("quadratic.png", TRUE, <<"Solve", "x^2 = 4">>),
           Image("page.png", TRUE, <<Long(249), Long(250)>>)}

\* A PDF byte stream: whether fitz opens it, and the text of each page.
Pdf(id, valid, pages) == [id |-> id, valid |-> valid, pages |-> pages]

Pdfs == {Pdf("garbage.pdf", FALSE, << >>),
         Pdf("scanned.pdf", TRUE, <<"", "">>),
         Pdf("notes.pdf", TRUE, <<"Page one. ", "Page two.">>),
         Pdf("essay.pdf", TRUE, <<Long(PreviewLen), "b">>)}

HintText == "Try isolating the unknown first."

\* What the remote chat-completion call can do: raise, or return a content.
RemoteOutcomes == {[raises |-> TRUE, content |-> ""],
                   [raises |-> FALSE, content |-> ""],
                   [raises |-> FALSE, content |-> HintText]}

(***************************************************************************)
(* Streamlit output.                                                       *)
(***************************************************************************)
Event(kind, body, processed) == [kind |-> kind, body |-> body, processed |-> processed]

st_warning(w, body) == [w EXCEPT !.out = Append(@, Event("warning", body, None))]

st_error(w, body) == [w EXCEPT !.out = Append(@, Event("error", body, None))]

NoPrevious == [k \in Keys |-> << >>]


(***************************************************************************)
(* AIStudyAssistant.__init__: the session-state keys are created only when *)
(* absent.  A session state is a function from the keys it holds.          *)
(***************************************************************************)
EmptySessionState == [k \in {} |-> << >>]

setdefault_empty(ss, key) ==
    IF key \notin DOMAIN ss
    THEN [k \in DOMAIN ss \cup {key} |-> IF k = key THEN << >> ELSE ss[k]]
    ELSE ss

\* Mutant: every construction assigns the three lists afresh.
AIStudyAssistant_init_reset(ss) == [k \in DOMAIN ss \cup Keys |-> << >>]

AIStudyAssistant_init(ss) ==
    setdefault_empty(
        setdefault_empty(
            setdefault_empty(ss, "text_responses"),
            "image_responses"),
        "pdf_responses")

(***************************************************************************)
(* process_image: the upload is written to the fixed path temp_image.png   *)
(* and EasyOCR reads that path back.                                       *)
(***************************************************************************)
\* open("temp_image.png", "wb") truncates the file.
open_wb(file) == EmptyFile

\* f.write(image_file.read())
file_write(file, data) == data

\* self.reader.readtext(path, detail=0): the recognised fragments, or an exception.
readtext(file) ==
    IF file.decodable
    THEN [raises |-> FALSE, results |-> file.fragments, message |-> ""]
    ELSE [raises |-> TRUE, results |-> << >>, message |-> "cannot read image"]

\* Mutant: OCR is run on the upload's own bytes, not on the shared path.
process_image_read_upload(file, image_file) == readtext(image_file)

\* The path process_image hands to readtext is the shared file, not the upload.
process_image_read(file, image_file) == readtext(file)

\* Mutant: the except branch swallows the exception without st.error.
process_image_return_silent(w, r) ==
    IF r.raises THEN [w |-> w, ret |-> None]
    ELSE [w |-> w, ret |-> Some(Join(" ", r.results))]

\* What follows the read: join and return, or the except branch.
process_image_return(w, r) ==
    IF r.raises
    THEN [w |-> st_error(w, "Error processing image with EasyOCR: " \o r.message),
          ret |-> None]
    ELSE [w |-> w, ret |-> Some(Join(" ", r.results))]

process_image(w, image_file) ==
    LET opened == open_wb(w.temp_image)
        written == file_write(opened, image_file)
        r == process_image_read(written, image_file)
        w1 == [w EXCEPT !.temp_image = written, !.extractions = @ + 1]
    IN process_image_return(w1, r)

(***************************************************************************)
(* extract_text_from_pdf                                                   *)
(***************************************************************************)
\* for page_num in range(page_count): text += page.get_text()
RECURSIVE extract_pages(_, _, _)
extract_pages(pages, page_num, acc) ==
    IF page_num > Len(pages) THEN acc
    ELSE extract_pages(pages, page_num + 1, acc \o pages[page_num])

extract_text_from_pdf(w, pdf_file) ==
    LET w1 == [w EXCEPT !.extractions = @ + 1]
    IN IF pdf_file.valid
       THEN [w |-> w1, ret |-> Some(extract_pages(pdf_file.pages, 1, ""))]
       ELSE [w |-> st_error(w1, "Error processing PDF: " \o "cannot open document"),
             ret |-> None]

(***************************************************************************)
(* get_ai_response                                                         *)
(***************************************************************************)
BaseSystemMessage ==
    "You are an AI study assistant. Provide hints and approaches to solve problems, "
    \o "but don't give exact answers. When crafting your response, consider the following "
    \o "prompts and guidelines: the answer should be versatile and elicit curiosity. "
    \o "Ensure each hint is unique and encourages critical thinking. "

CodingClause == "topics and provide specific coding hints."

MathClause == "topics and provide specific mathematical hints."

ScienceClause == "topics and provide specific scientific hints."

GeneralClause == "general education topics."

\* Mutant: the topic is matched without regard to letter case.
topic_clause_anycase(topic_type) ==
    IF topic_type \in {"Coding", "coding"} THEN CodingClause
    ELSE IF topic_type \in {"Math", "math"} THEN MathClause
    ELSE IF topic_type \in {"Science", "science"} THEN ScienceClause
    ELSE GeneralClause

topic_clause(topic_type) ==
    IF topic_type = "Coding" THEN CodingClause
    ELSE IF topic_type = "Math" THEN MathClause
    ELSE IF topic_type = "Science" THEN ScienceClause
    ELSE GeneralClause

system_message(topic_type) ==
    (BaseSystemMessage \o "Focus on " \o topic_type \o "-related ")
    \o topic_clause(topic_type)

\* remote is what the chat-completion call does this time.
get_ai_response(w, input_text, topic_type, remote) ==
    LET w1 == [w EXCEPT !.calls = Append(@, [system |-> system_message(topic_type),
                                             user |-> input_text])]
    IN IF remote.raises
       THEN [w |-> st_error(w1, "Error getting AI response from Groq: " \o "request failed"),
             ret |-> None]
       ELSE [w |-> w1, ret |-> Some(remote.content)]

(***************************************************************************)
(* display_response, display_previous_responses, render_responses          *)
(***************************************************************************)
append_response(ss, key, question, answer) ==
    [ss EXCEPT ![key] = Append(@, <<question, answer>>)]

\* Mutant: every response is appended to text_responses.
display_response_text_list(w, question, answer, response_type) ==
    [w EXCEPT !.out = Append(@, Event("card", answer, None)),
              !.ss = append_response(@, "text_responses", question, answer)]

display_response(w, question, answer, response_type) ==
    LET processed ==
            IF response_type # "text"
            THEN Some(IF Len(question) < PreviewLen THEN question
                      ELSE SubSeq(question, 1, PreviewLen) \o "...")
            ELSE None
        w1 == [w EXCEPT !.out = Append(@, Event("card", answer, processed))]
    IN IF response_type = "text"
       THEN [w1 EXCEPT !.ss = append_response(@, "text_responses", question, answer)]
       ELSE IF response_type = "image"
       THEN [w1 EXCEPT !.ss = append_response(@, "image_responses", question, answer)]
       ELSE IF response_type = "pdf"
       THEN [w1 EXCEPT !.ss = append_response(@, "pdf_responses", question, answer)]
       ELSE w1

\* Mutant: the list is walked oldest first.
render_order_forward(responses) == responses

\* for i, (question, answer) in enumerate(reversed(responses), 1)
render_order(responses) == Reversed(responses)

render_responses(responses, question_label, answer_label) ==
    LET ordered == render_order(responses)
    IN [i \in 1..Len(ordered) |->
          [i |-> i,
           question_label |-> question_label,
           preview |-> IF Len(ordered[i][1]) < PreviewLen THEN ordered[i][1]
                       ELSE SubSeq(ordered[i][1], 1, PreviewLen) \o "...",
           answer_label |-> answer_label,
           answer |-> ordered[i][2],
           divider |-> i < Len(responses)]]

display_previous_responses(w, response_type) ==
    IF response_type = "text" /\ w.ss["text_responses"] # << >>
    THEN [w EXCEPT !.previous["text_responses"] =
              render_responses(w.ss["text_responses"], "Question", "Answer")]
    ELSE IF response_type = "image" /\ w.ss["image_responses"] # << >>
    THEN [w EXCEPT !.previous["image_responses"] =
              render_responses(w.ss["image_responses"], "Processed Text", "Answer")]
    ELSE IF response_type = "pdf" /\ w.ss["pdf_responses"] # << >>
    THEN [w EXCEPT !.previous["pdf_responses"] =
              render_responses(w.ss["pdf_responses"], "Processed Text", "Answer")]
    ELSE w

(***************************************************************************)
(* The three tabs.  clicked is st.button's value in this run.              *)
(***************************************************************************)
\* Mutant: the text tab does not test user_input before calling the model.
render_text_hint_unchecked(w, user_input, topic_type, remote) ==
    LET r == get_ai_response(w, user_input, topic_type, remote)
        w1 == [r.w EXCEPT !.hint = r.ret]
    IN IF Truthy(r.ret) THEN display_response(w1, user_input, r.ret[1], "text")
       ELSE w1

render_text_hint(w, user_input, topic_type, remote) ==
    IF user_input # ""
    THEN LET r == get_ai_response(w, user_input, topic_type, remote)
             w1 == [r.w EXCEPT !.hint = r.ret]
         IN IF Truthy(r.ret) THEN display_response(w1, user_input, r.ret[1], "text")
            ELSE w1
    ELSE st_warning(w, "Please enter a question.")

render_text_tab(w, user_input, clicked, topic_type, remote) ==
    display_previous_responses(
        IF clicked THEN render_text_hint(w, user_input, topic_type, remote) ELSE w,
        "text")

\* if text: hint = get_ai_response(...); if hint: display_response(...)
render_extracted_hint(e, topic_type, remote, response_type) ==
    LET w0 == [e.w EXCEPT !.text = e.ret]
    IN IF Truthy(e.ret)
       THEN LET r == get_ai_response(w0, e.ret[1], topic_type, remote)
                w1 == [r.w EXCEPT !.hint = r.ret]
            IN IF Truthy(r.ret)
               THEN display_response(w1, e.ret[1], r.ret[1], response_type)
               ELSE w1
       ELSE w0

render_image_hint(w, image_file, topic_type, remote) ==
    IF image_file # None
    THEN render_extracted_hint(process_image(w, image_file[1]), topic_type, remote, "image")
    ELSE st_warning(w, "Please upload an image.")

render_image_tab(w, image_file, clicked, topic_type, remote) ==
    display_previous_responses(
        IF clicked THEN render_image_hint(w, image_file, topic_type, remote) ELSE w,
        "image")

render_pdf_hint(w, pdf_file, topic_type, remote) ==
    IF pdf_file # None
    THEN render_extracted_hint(extract_text_from_pdf(w, pdf_file[1]), topic_type, remote, "pdf")
    ELSE st_warning(w, "Please upload a PDF file.")

render_pdf_tab(w, pdf_file, clicked, topic_type, remote) ==
    display_previous_responses(
        IF clicked THEN render_pdf_hint(w, pdf_file, topic_type, remote) ELSE w,
        "pdf")

(***************************************************************************)
(* One run of the script: construct the assistant, then render_ui.         *)
(***************************************************************************)
Click(button, user_input, image_file, pdf_file, topic_type) ==
    [button |-> button, user_input |-> user_input, image_file |-> image_file,
     pdf_file |-> pdf_file, topic_type |-> topic_type]

\* The world a run starts in: the session state and the file outlive the run,
\* the page is drawn afresh.
StartRun(ss, file) ==
    [ss |-> AIStudyAssistant_init(ss), temp_image |-> file, out |-> << >>,
     previous |-> NoPrevious, calls |-> << >>, extractions |-> 0,
     text |-> None, hint |-> None]

render_tabs(w, c, remote) ==
    LET w1 == render_text_tab(w, c.user_input, c.button = "text", c.topic_type, remote)
        w2 == render_image_tab(w1, c.image_file, c.button = "image", c.topic_type, remote)
    IN render_pdf_tab(w2, c.pdf_file, c.button = "pdf", c.topic_type, remote)

RunScript(ss, file, c, remote) == render_tabs(StartRun(ss, file), c, remote)

(***************************************************************************)
(* Specification Spec: one browser session.  Every action is one run of    *)
(* the script; the widget values and the remote outcome are its inputs.    *)
(***************************************************************************)
NoClick(topic_type) == Click("none", "", None, None, topic_type)

TotalStored(ss) ==
    Len(ss["text_responses"]) + Len(ss["image_responses"]) + Len(ss["pdf_responses"])

\* The variables of the session after a run that ended in world w.
Shows(w, c) ==
    /\ session_state' = w.ss
    /\ temp_image' = w.temp_image
    /\ click' = c
    /\ out' = w.out
    /\ previous' = w.previous
    /\ calls' = w.calls
    /\ extractions' = w.extractions
    /\ text' = w.text
    /\ hint' = w.hint

PromptIdle == [topic_type |-> "General", input_text |-> "", done |-> FALSE,
               calls |-> << >>, out |-> << >>, ret |-> None]

\* No button pressed: the run makes no remote call, whatever the service would do.
NoRemote == [raises |-> FALSE, content |-> ""]

FirstRun == RunScript(EmptySessionState, AbsentFile, NoClick("General"), NoRemote)

Sessions == {"A", "B"}

SessIdle == [s \in Sessions |-> [pc |-> "idle", image_file |-> None, w |-> FirstRun]]

UiInit ==
    /\ session_state = FirstRun.ss
    /\ click = NoClick("General")
    /\ out = FirstRun.out
    /\ previous = FirstRun.previous
    /\ calls = FirstRun.calls
    /\ extractions = FirstRun.extractions
    /\ text = FirstRun.text
    /\ hint = FirstRun.hint

Init ==
    /\ UiInit
    /\ temp_image = FirstRun.temp_image
    /\ prompt = PromptIdle
    /\ sess = SessIdle

\* A widget other than a hint button changed (here the topic radio): a rerun.
\* click.topic_type is the radio's value, which later clicks read.
Rerun ==
    \E topic_type \in Topics :
        /\ Shows(RunScript(session_state, temp_image, NoClick(topic_type), NoRemote),
                 NoClick(topic_type))
        /\ UNCHANGED <<prompt, sess>>

ClickText ==
    \E user_input \in Texts, remote \in RemoteOutcomes :
        LET c == Click("text", user_input, None, None, click.topic_type)
        IN /\ TotalStored(session_state) < MaxResponses
           /\ Shows(RunScript(session_state, temp_image, c, remote), c)
           /\ UNCHANGED <<prompt, sess>>

ClickImage ==
    \E image_file \in {None} \cup {Some(i) : i \in Images},
       remote \in RemoteOutcomes :
        LET c == Click("image", "", image_file, None, click.topic_type)
        IN /\ TotalStored(session_state) < MaxResponses
           /\ Shows(RunScript(session_state, temp_image, c, remote), c)
           /\ UNCHANGED <<prompt, sess>>

ClickPdf ==
    \E pdf_file \in {None} \cup {Some(d) : d \in Pdfs},
       remote \in RemoteOutcomes :
        LET c == Click("pdf", "", None, pdf_file, click.topic_type)
        IN /\ TotalStored(session_state) < MaxResponses
           /\ Shows(RunScript(session_state, temp_image, c, remote), c)
           /\ UNCHANGED <<prompt, sess>>

Next == Rerun \/ ClickText \/ ClickImage \/ ClickPdf

Spec == Init /\ [][Next]_vars

(***************************************************************************)
(* Specification SpecPrompt: get_ai_response as a function of its          *)
(* arguments, for recognised and unrecognised topic types.                 *)
(***************************************************************************)
InitPrompt ==
    /\ UiInit
    /\ temp_image = FirstRun.temp_image
    /\ sess = SessIdle
    /\ prompt \in {[PromptIdle EXCEPT !.topic_type = t, !.input_text = x] :
                      t \in TopicInputs, x \in Texts}

CallGetAiResponse ==
    \E remote \in RemoteOutcomes :
        LET r == get_ai_response(StartRun(session_state, temp_image),
                                 prompt.input_text, prompt.topic_type, remote)
        IN /\ ~prompt.done
           /\ prompt' = [prompt EXCEPT !.done = TRUE, !.calls = r.w.calls,
                                       !.out = r.w.out, !.ret = r.ret]
           /\ UNCHANGED <<uiVars, temp_image, sess>>

NextPrompt == CallGetAiResponse

SpecPrompt == InitPrompt /\ [][NextPrompt]_vars

(***************************************************************************)
(* Specification SpecConc: two sessions of the one server process click    *)
(* "Get Hint (Image)".  Each runs the script in its own thread with its    *)
(* own session state; temp_image.png is the one file in the working        *)
(* directory, so the steps of process_image that touch it interleave.      *)
(***************************************************************************)
ConcImages == {Image("quadratic.png", TRUE, <<"Solve", "x^2 = 4">>),
               Image("exact.png", TRUE, <<"what is the", "Exact Solution">>)}

ConcTopic == "General"

InitConc ==
    /\ UiInit
    /\ temp_image = AbsentFile
    /\ prompt = PromptIdle
    /\ sess = SessIdle

\* The run up to process_image's open(): __init__, the text tab, the image
\* tab's button pressed with a file uploaded.
ConcClick(s) ==
    \E img \in ConcImages :
        /\ sess[s].pc = "idle"
        /\ Len(sess[s].w.ss["image_responses"]) < MaxResponses
        /\ sess' = [sess EXCEPT ![s] =
                      [pc |-> "open", image_file |-> Some(img),
                       w |-> render_text_tab(StartRun(sess[s].w.ss, AbsentFile),
                                             "", FALSE, ConcTopic, NoRemote)]]
        /\ UNCHANGED <<uiVars, temp_image, prompt>>

ConcOpen(s) ==
    /\ sess[s].pc = "open"
    /\ temp_image' = open_wb(temp_image)
    /\ sess' = [sess EXCEPT ![s].pc = "write", ![s].w.extractions = @ + 1]
    /\ UNCHANGED <<uiVars, prompt>>

ConcWrite(s) ==
    /\ sess[s].pc = "write"
    /\ temp_image' = file_write(temp_image, sess[s].image_file[1])
    /\ sess' = [sess EXCEPT ![s].pc = "read"]
    /\ UNCHANGED <<uiVars, prompt>>

\* readtext on the path, then the rest of the run, which touches only the
\* session's own state.
ConcRead(s) ==
    \E remote \in RemoteOutcomes :
        LET r == process_image_read(temp_image, sess[s].image_file[1])
            e == process_image_return(sess[s].w, r)
            w2 == display_previous_responses(
                      render_extracted_hint(e, ConcTopic, remote, "image"), "image")
            w3 == render_pdf_tab(w2, None, FALSE, ConcTopic, remote)
        IN /\ sess[s].pc = "read"
           /\ sess' = [sess EXCEPT ![s].pc = "idle", ![s].w = w3]
           /\ UNCHANGED <<uiVars, temp_image, prompt>>

NextConc ==
    \E s \in Sessions : ConcClick(s) \/ ConcOpen(s) \/ ConcWrite(s) \/ ConcRead(s)

SpecConc == InitConc /\ [][NextConc]_vars

(***************************************************************************)
(* Vocabulary of the properties.                                           *)
(***************************************************************************)
IsPrefix(a, b) == Len(a) <= Len(b) /\ SubSeq(b, 1, Len(a)) = a

EndsWith(s, suffix) ==
    Len(s) >= Len(suffix) /\ SubSeq(s, Len(s) - Len(suffix) + 1, Len(s)) = suffix

UpperLetters == "ABCDEFGHIJKLMNOPQRSTUVWXYZ"

LowerLetters == "abcdefghijklmnopqrstuvwxyz"

LowerChar(c) ==
    IF \E i \in 1..Len(UpperLetters) : SubSeq(UpperLetters, i, i) = c
    THEN LET i == CHOOSE j \in 1..Len(UpperLetters) : SubSeq(UpperLetters, j, j) = c
         IN SubSeq(LowerLetters, i, i)
    ELSE c

\* str.lower()
RECURSIVE Lower(_)
Lower(s) == IF Len(s) = 0 THEN ""
            ELSE IF Len(s) = 1 THEN LowerChar(s)
            ELSE Lower(SubSeq(s, 1, Len(s) \div 2))
                 \o Lower(SubSeq(s, Len(s) \div 2 + 1, Len(s)))

Contains(s, needle) ==
    \E i \in 1..(Len(s) - Len(needle) + 1) : SubSeq(s, i, i + Len(needle) - 1) = needle

HasRefusalKeyword(s) ==
    Contains(Lower(s), "exact answer") \/ Contains(Lower(s), "exact solution")

ButtonOf(key) ==
    IF key = "text_responses" THEN "text"
    ELSE IF key = "image_responses" THEN "image" ELSE "pdf"

\* Number of events of the given kinds the last click drew.
Drawn(kinds) == Cardinality({i \in 1..Len(out) : out[i].kind \in kinds})

\* The text the last click had for the model: the typed question, or what
\* OCR / PDF extraction returned.
Acquired == IF click.button = "text" THEN Some(click.user_input) ELSE text

MissingInput ==
    \/ click.button = "text" /\ click.user_input = ""
    \/ click.button = "image" /\ click.image_file = None
    \/ click.button = "pdf" /\ click.pdf_file = None

ExtractionRaised ==
    \/ click.button = "image" /\ click.image_file # None
                              /\ ~click.image_file[1].decodable
    \/ click.button = "pdf" /\ click.pdf_file # None /\ ~click.pdf_file[1].valid

\* The last click ran its pipeline to the end: input acquired, hint returned.
Succeeded(key) ==
    click.button = ButtonOf(key) /\ Truthy(Acquired) /\ Truthy(hint)

(***************************************************************************)
(* C1.  A question containing "exact answer" or "exact solution" in any    *)
(* letter case is answered with a refusal and without a remote call.       *)
(* src/app.py has no such check: get_ai_response always sends the request. *)
(***************************************************************************)
C1_KeywordRefusedWithoutCall ==
    (click.button # "none" /\ Truthy(Acquired) /\ HasRefusalKeyword(Acquired[1]))
        => (calls = << >> /\ Drawn({"card"}) = 1)

ClaimedPreview(question) ==
    IF Len(question) > PreviewLen
    THEN SubSeq(question, 1, PreviewLen) \o "..."
    ELSE question

(***************************************************************************)
(* C2.  Every preview drawn is the question itself when the question has   *)
(* at most 500 characters, and its first 500 characters followed by "..."  *)
(* when it has more.  The code tests len(question) < 500, so a question    *)
(* of exactly 500 characters is drawn with "..." appended.                 *)
(***************************************************************************)
C2_PreviewTruncatesOnlyAbove500 ==
    /\ \A i \in 1..Len(out) :
          out[i].processed # None => out[i].processed[1] = ClaimedPreview(text[1])
    /\ \A k \in Keys : \A i \in 1..Len(previous[k]) :
          previous[k][i].preview =
              ClaimedPreview(session_state[k][Len(session_state[k]) - i + 1][1])

(***************************************************************************)
(* C3.  In every run each response list keeps its length, except the list  *)
(* of the modality whose click succeeded (input acquired and a hint        *)
(* returned), which grows by exactly one.                                  *)
(***************************************************************************)
C3_ListGrowsByOnePerSuccess ==
    [][\A k \in Keys :
          Len(session_state'[k]) =
              Len(session_state[k]) + (IF Succeeded(k)' THEN 1 ELSE 0)]_vars

C3_Witness ==
    /\ Succeeded("image_responses")
    /\ Len(session_state["image_responses"]) = 2
    /\ Len(session_state["text_responses"]) = 0

(***************************************************************************)
(* C4.  A click whose image cannot be decoded or whose PDF cannot be       *)
(* opened reports an error, sends nothing to the model and leaves the      *)
(* three response lists as they were.                                      *)
(***************************************************************************)
C4_ExtractionFailureAborts ==
    [][ExtractionRaised' =>
          /\ Drawn({"error"})' = 1
          /\ Drawn({"card"})' = 0
          /\ calls' = << >>
          /\ session_state' = session_state]_vars

C4_Witness ==
    /\ ExtractionRaised
    /\ click.button = "image"
    /\ Drawn({"error"}) = 1
    /\ Len(session_state["image_responses"]) = 1

(***************************************************************************)
(* C5.  Every click on a hint button ends either with one hint card drawn  *)
(* and no warning or error, or with no card and a warning or error.  The   *)
(* code draws nothing at all when extraction returns "" or the model       *)
(* returns "".                                                             *)
(***************************************************************************)
C5_EveryClickShowsHintOrMessage ==
    click.button # "none" =>
        \/ Drawn({"card"}) = 1 /\ Drawn({"warning", "error"}) = 0
        \/ Drawn({"card"}) = 0 /\ Drawn({"warning", "error"}) >= 1

(***************************************************************************)
(* C6.  A click with no input (empty question, no image, no PDF) draws a   *)
(* warning, runs no extraction, sends nothing to the model and leaves the  *)
(* three response lists as they were.                                      *)
(***************************************************************************)
C6_MissingInputWarns ==
    [][MissingInput' =>
          /\ Drawn({"warning"})' = 1
          /\ Drawn({"card", "error"})' = 0
          /\ extractions' = 0
          /\ calls' = << >>
          /\ session_state' = session_state]_vars

C6_Witness ==
    /\ MissingInput
    /\ click.button = "text"
    /\ Drawn({"warning"}) = 1
    /\ Len(session_state["text_responses"]) = 1

(***************************************************************************)
(* C7.  Across every run, each response list before the run is a prefix of *)
(* the list after it: nothing stored is changed, removed, reordered or     *)
(* reset, also not by constructing AIStudyAssistant again.                 *)
(***************************************************************************)
C7_StoredResponsesArePrefix ==
    [][/\ DOMAIN session_state' = DOMAIN session_state
       /\ \A k \in Keys : IsPrefix(session_state[k], session_state'[k])]_vars

C7_Witness ==
    /\ click.button = "pdf"
    /\ Drawn({"error"}) = 1
    /\ Len(session_state["pdf_responses"]) = 0
    /\ Len(session_state["text_responses"]) = 1

ClaimedClause(topic_type) ==
    CASE topic_type = "Coding" -> "topics and provide specific coding hints."
      [] topic_type = "Math" -> "topics and provide specific mathematical hints."
      [] topic_type = "Science" -> "topics and provide specific scientific hints."
      [] OTHER -> "general education topics."

(***************************************************************************)
(* C8.  The system instruction get_ai_response sends ends with the coding  *)
(* clause for "Coding", the mathematical clause for "Math", the scientific *)
(* clause for "Science", and the general-education clause for "General"    *)
(* and any other value, the topic being matched as an exact string.        *)
(***************************************************************************)
C8_SystemMessageEndsWithTopicClause ==
    prompt.done =>
        /\ Len(prompt.calls) = 1
        /\ prompt.calls[1].user = prompt.input_text
        /\ EndsWith(prompt.calls[1].system,
                    "Focus on " \o prompt.topic_type \o "-related "
                        \o ClaimedClause(prompt.topic_type))

C8_Witness ==
    /\ prompt.done
    /\ prompt.topic_type = "coding"
    /\ EndsWith(prompt.calls[1].system, "general education topics.")

(***************************************************************************)
(* C9.  What a run draws under "Previous ... Responses" is the modality's  *)
(* stored list, newest first: with n pairs stored, n items are drawn, and  *)
(* the item labelled i shows the pair stored (n - i + 1)-th, the pair the  *)
(* current click stored included.                                          *)
(***************************************************************************)
C9_PreviousResponsesNewestFirst ==
    \A k \in Keys :
        LET n == Len(session_state[k])
        IN /\ Len(previous[k]) = n
           /\ \A i \in 1..n :
                 /\ previous[k][i].i = i
                 /\ previous[k][i].answer = session_state[k][n - i + 1][2]
                 /\ IsPrefix(SubSeq(session_state[k][n - i + 1][1], 1,
                                    IF Len(session_state[k][n - i + 1][1]) < PreviewLen
                                    THEN Len(session_state[k][n - i + 1][1])
                                    ELSE PreviewLen),
                             previous[k][i].preview)

C9_Witness ==
    /\ Succeeded("text_responses")
    /\ Len(session_state["text_responses"]) = 2
    /\ session_state["text_responses"][1] # session_state["text_responses"][2]
    /\ previous["text_responses"][1].preview = click.user_input

(***************************************************************************)
(* C10.  process_image under two sessions: the OCR of a session reads      *)
(* whatever the shared file holds at that moment, so a session can be      *)
(* given the text of the other session's image and store it as its own.    *)
(***************************************************************************)
C10_OcrReadsWhateverTheSharedFileHolds ==
    [][\A s \in Sessions :
          (sess[s].pc = "read" /\ sess'[s].pc = "idle") =>
              sess'[s].w.text =
                  IF temp_image.decodable
                  THEN Some(Join(" ", temp_image.fragments))
                  ELSE None]_vars

C10_Witness ==
    \E a, b \in Sessions :
        /\ a # b
        /\ sess[a].pc = "idle"
        /\ sess[a].image_file # None /\ sess[b].image_file # None
        /\ sess[a].image_file # sess[b].image_file
        /\ sess[a].w.text = Some(Join(" ", sess[b].image_file[1].fragments))
        /\ sess[a].w.text # Some(Join(" ", sess[a].image_file[1].fragments))
        /\ sess[a].w.ss["image_responses"] # << >>
        /\ sess[a].w.ss["image_responses"][Len(sess[a].w.ss["image_responses"])]
               = <<Join(" ", sess[b].image_file[1].fragments), HintText>>

=============================================================================
